---- MODULE Spec2Model ----
(***************************************************************************)
(* A model of the foreign-function marshaling and resource-lifecycle layer *)
(* of node-voicevox-core-dynamic: the low-level wrappers around the native *)
(* voicevox_core entry points, and the high-level client built on them.    *)
(*                                                                         *)
(* The native library is a test double: it keeps the state of every handle *)
(* it gave out, and answers each call with a result code and out-parameters*)
(* drawn from a small set.  Every operation records, in `trace`, the native *)
(* entry points it invoked and the managed steps (readLength, decode,      *)
(* parse) it took, in order.                                               *)
(***************************************************************************)
EXTENDS Integers, Sequences, FiniteSets, TLC

\* ------------------------------------------------------------------ bounds

\* Native handles the test double can give out in one behaviour.
MaxHandles == 4

Handles == 1..MaxHandles

\* Operations the caller starts in one behaviour, close() calls aside (a
\* close() of an object already closed changes nothing).
MaxOps == 3

\* ------------------------------------------------------------- result codes

Ok == 0
NotLoadedOpenjtalkDictError == 1
StyleNotFoundError == 6

\* The result codes the test double answers with.
ResultCodes == {Ok, NotLoadedOpenjtalkDictError, StyleNotFoundError}

\* voicevox_error_result_to_message: the native diagnostic text of a code.
voicevox_error_result_to_message(code) ==
  CASE code = Ok -> "ok"
    [] code = NotLoadedOpenjtalkDictError -> "open jtalk dict is not loaded"
    [] code = StyleNotFoundError -> "style not found"
    [] OTHER -> "unknown error"

\* ------------------------------------------------------------------ errors

NoErr == [cls |-> "none", code |-> 0, msg |-> ""]

\* new VoicevoxError(code, message): super(message); this.code = code.
VoicevoxError(code, message) == [cls |-> "VoicevoxError", code |-> code, msg |-> message]

\* new Error(message)
Error(message) == [cls |-> "Error", code |-> 0, msg |-> message]

\* What koffi.decode / new Uint8Array(length) raise when decoding fails.
DecodeError == [cls |-> "TypeError", code |-> 0, msg |-> "decode failed"]

\* What JSON.parse raises on malformed text.
SyntaxError == [cls |-> "SyntaxError", code |-> 0, msg |-> "Unexpected token"]

\* The err the koffi async callback receives when the submission itself fails.
SubmitError == [cls |-> "Error", code |-> 0, msg |-> "koffi async call failed"]

\* ---------------------------------------------------------------- wrappers

(* A wrapper of the low-level API, by the shape of its code:
     entry       the native entry point it calls
     async       submitted through promisifyKoffiAsync (TRUE) or called plainly
     optional    entry is probed first (`if (!functions.<entry>) throw`)
     unsupported the message of the Error raised when an optional entry lacks
     minVersion  the native library version that message names as required,
                 or "" when the message names none
     defaults    the native make-default-options entry called first, or ""
     argA, argB  the kinds of the handles passed: none, ort, ojt, synth, vmf, dict
     ret         what the native call yields:
                   code      a result code only
                   handle    a result code and an out-parameter handle
                   json      a result code and an out-parameter JSON buffer
                   wav       a result code, an out length and an out WAV buffer
                   ptrjson   a JSON buffer as its return value (no result code)
                   ptrhandle a handle as its return value (no result code)
                   value     a plain value (no result code, nothing to free)
                   delete    nothing: the entry destroys the handle argA
     makes       the kind of the handle created
     nullCheck   the wrapper tests the pointer against null before using it
     free        the deallocation entry point called on the buffer
     helper      the buffer is freed through freeJson / freeWav of
                 utils/memory.ts, which return without a call on null
     parse       the decoded text goes through JSON.parse before returning    *)
WrapperShape ==
  [name |-> "", entry |-> "", async |-> FALSE, optional |-> FALSE,
   unsupported |-> "", defaults |-> "", argA |-> "none", argB |-> "none",
   ret |-> "code", makes |-> "none", nullCheck |-> FALSE, nullMsg |-> "",
   free |-> "", helper |-> FALSE, parse |-> FALSE, minVersion |-> ""]

\* --- api/onnxruntime.ts

loadOnnxruntime ==
  [WrapperShape EXCEPT !.name = "loadOnnxruntime",
     !.entry = "voicevox_onnxruntime_load_once", !.async = TRUE,
     !.defaults = "voicevox_make_default_load_onnxruntime_options",
     !.ret = "handle", !.makes = "ort", !.nullCheck = TRUE,
     !.nullMsg = "Failed to load ONNX Runtime: null handle returned"]

getOnnxruntimeSupportedDevicesJson ==
  [WrapperShape EXCEPT !.name = "getOnnxruntimeSupportedDevicesJson",
     !.entry = "voicevox_onnxruntime_create_supported_devices_json",
     !.argA = "ort", !.ret = "json", !.nullCheck = TRUE,
     !.nullMsg = "Failed to create JSON: null pointer returned",
     !.free = "voicevox_json_free"]

getVersion ==
  [WrapperShape EXCEPT !.name = "getVersion", !.entry = "voicevox_get_version",
     !.ret = "value"]

\* --- api/open-jtalk.ts

createOpenJtalk ==
  [WrapperShape EXCEPT !.name = "createOpenJtalk",
     !.entry = "voicevox_open_jtalk_rc_new", !.async = TRUE,
     !.ret = "handle", !.makes = "ojt", !.nullCheck = TRUE,
     !.nullMsg = "Failed to create OpenJtalk: null handle returned"]

deleteOpenJtalk ==
  [WrapperShape EXCEPT !.name = "deleteOpenJtalk",
     !.entry = "voicevox_open_jtalk_rc_delete", !.argA = "ojt", !.ret = "delete"]

useUserDict ==
  [WrapperShape EXCEPT !.name = "useUserDict",
     !.entry = "voicevox_open_jtalk_rc_use_user_dict",
     !.argA = "ojt", !.argB = "dict"]

analyze ==
  [WrapperShape EXCEPT !.name = "analyze",
     !.entry = "voicevox_open_jtalk_rc_analyze", !.async = TRUE,
     !.argA = "ojt", !.ret = "json", !.nullCheck = TRUE,
     !.nullMsg = "Failed to analyze: null pointer returned",
     !.free = "voicevox_json_free"]

createUserDict ==
  [WrapperShape EXCEPT !.name = "createUserDict",
     !.entry = "voicevox_user_dict_new", !.ret = "ptrhandle", !.makes = "dict"]

loadUserDict ==
  [WrapperShape EXCEPT !.name = "loadUserDict",
     !.entry = "voicevox_user_dict_load", !.argA = "dict"]

userDictToJson ==
  [WrapperShape EXCEPT !.name = "userDictToJson",
     !.entry = "voicevox_user_dict_to_json", !.argA = "dict", !.ret = "json",
     !.nullCheck = TRUE,
     !.nullMsg = "Failed to create JSON: null pointer returned",
     !.free = "voicevox_json_free"]

importUserDict ==
  [WrapperShape EXCEPT !.name = "importUserDict",
     !.entry = "voicevox_user_dict_import", !.argA = "dict", !.argB = "dict"]

saveUserDict ==
  [WrapperShape EXCEPT !.name = "saveUserDict",
     !.entry = "voicevox_user_dict_save", !.argA = "dict"]

deleteUserDict ==
  [WrapperShape EXCEPT !.name = "deleteUserDict",
     !.entry = "voicevox_user_dict_delete", !.argA = "dict", !.ret = "delete"]

\* --- api/voice-model.ts

openVoiceModelFile ==
  [WrapperShape EXCEPT !.name = "openVoiceModelFile",
     !.entry = "voicevox_voice_model_file_open", !.async = TRUE,
     !.ret = "handle", !.makes = "vmf", !.nullCheck = TRUE,
     !.nullMsg = "Failed to open voice model file: null handle returned"]

getVoiceModelId ==
  [WrapperShape EXCEPT !.name = "getVoiceModelId",
     !.entry = "voicevox_voice_model_file_id", !.argA = "vmf", !.ret = "value"]

getVoiceModelMetasJson ==
  [WrapperShape EXCEPT !.name = "getVoiceModelMetasJson",
     !.entry = "voicevox_voice_model_file_create_metas_json",
     !.argA = "vmf", !.ret = "ptrjson",
     !.free = "voicevox_json_free", !.helper = TRUE]

closeVoiceModelFile ==
  [WrapperShape EXCEPT !.name = "closeVoiceModelFile",
     !.entry = "voicevox_voice_model_file_delete", !.argA = "vmf",
     !.ret = "delete"]

\* --- api/synthesizer.ts

createSynthesizer ==
  [WrapperShape EXCEPT !.name = "createSynthesizer",
     !.entry = "voicevox_synthesizer_new", !.async = TRUE,
     !.defaults = "voicevox_make_default_initialize_options",
     !.argA = "ojt", !.argB = "ort", !.ret = "handle", !.makes = "synth",
     !.nullCheck = TRUE,
     !.nullMsg = "Failed to create synthesizer: null handle returned"]

deleteSynthesizer ==
  [WrapperShape EXCEPT !.name = "deleteSynthesizer",
     !.entry = "voicevox_synthesizer_delete", !.argA = "synth",
     !.ret = "delete"]

loadVoiceModel ==
  [WrapperShape EXCEPT !.name = "loadVoiceModel",
     !.entry = "voicevox_synthesizer_load_voice_model", !.async = TRUE,
     !.argA = "synth", !.argB = "vmf"]

unloadVoiceModel ==
  [WrapperShape EXCEPT !.name = "unloadVoiceModel",
     !.entry = "voicevox_synthesizer_unload_voice_model", !.argA = "synth"]

isGpuMode ==
  [WrapperShape EXCEPT !.name = "isGpuMode",
     !.entry = "voicevox_synthesizer_is_gpu_mode", !.argA = "synth",
     !.ret = "value"]

isLoadedVoiceModel ==
  [WrapperShape EXCEPT !.name = "isLoadedVoiceModel",
     !.entry = "voicevox_synthesizer_is_loaded_voice_model", !.argA = "synth",
     !.ret = "value"]

getSynthesizerMetasJson ==
  [WrapperShape EXCEPT !.name = "getSynthesizerMetasJson",
     !.entry = "voicevox_synthesizer_create_metas_json", !.argA = "synth",
     !.ret = "ptrjson", !.free = "voicevox_json_free"]

createAudioQuery ==
  [WrapperShape EXCEPT !.name = "createAudioQuery",
     !.entry = "voicevox_synthesizer_create_audio_query", !.async = TRUE,
     !.argA = "synth", !.ret = "json", !.nullCheck = TRUE,
     !.nullMsg = "Failed to create JSON: null pointer returned",
     !.free = "voicevox_json_free", !.parse = TRUE]

createAudioQueryFromKana ==
  [createAudioQuery EXCEPT !.name = "createAudioQueryFromKana",
     !.entry = "voicevox_synthesizer_create_audio_query_from_kana"]

createAccentPhrases ==
  [createAudioQuery EXCEPT !.name = "createAccentPhrases",
     !.entry = "voicevox_synthesizer_create_accent_phrases"]

createAccentPhrasesFromKana ==
  [createAudioQuery EXCEPT !.name = "createAccentPhrasesFromKana",
     !.entry = "voicevox_synthesizer_create_accent_phrases_from_kana"]

createAudioQueryFromAccentPhrases ==
  [createAudioQuery EXCEPT !.name = "createAudioQueryFromAccentPhrases",
     !.entry = "voicevox_audio_query_create_from_accent_phrases",
     !.argA = "none"]

synthesis ==
  [WrapperShape EXCEPT !.name = "synthesis",
     !.entry = "voicevox_synthesizer_synthesis", !.async = TRUE,
     !.defaults = "voicevox_make_default_synthesis_options",
     !.argA = "synth", !.ret = "wav", !.nullCheck = TRUE,
     !.nullMsg = "Failed to synthesize: null pointer returned",
     !.free = "voicevox_wav_free"]

\* The same wrapper as src/api/synthesizer.ts has it: no null test, and the
\* buffer freed through freeWav.
synthesis_freeWav ==
  [synthesis EXCEPT !.name = "synthesis_freeWav", !.nullCheck = FALSE,
     !.nullMsg = "", !.helper = TRUE]

tts ==
  [synthesis EXCEPT !.name = "tts", !.entry = "voicevox_synthesizer_tts",
     !.defaults = "voicevox_make_default_tts_options"]

ttsFromKana ==
  [tts EXCEPT !.name = "ttsFromKana",
     !.entry = "voicevox_synthesizer_tts_from_kana"]

createSingFrameAudioQuery ==
  [createAudioQuery EXCEPT !.name = "createSingFrameAudioQuery",
     !.entry = "voicevox_synthesizer_create_sing_frame_audio_query",
     !.optional = TRUE,
     !.unsupported = "voicevox_synthesizer_create_sing_frame_audio_query is not available. This function requires voicevox_core v0.16.4 or later.",
     !.minVersion = "v0.16.4"]

createSingFrameF0 ==
  [createAudioQuery EXCEPT !.name = "createSingFrameF0",
     !.entry = "voicevox_synthesizer_create_sing_frame_f0",
     !.optional = TRUE,
     !.unsupported = "voicevox_synthesizer_create_sing_frame_f0 is not available. This function requires voicevox_core v0.16.4 or later.",
     !.minVersion = "v0.16.4"]

createSingFrameVolume ==
  [createAudioQuery EXCEPT !.name = "createSingFrameVolume",
     !.entry = "voicevox_synthesizer_create_sing_frame_volume",
     !.optional = TRUE,
     !.unsupported = "voicevox_synthesizer_create_sing_frame_volume is not available. This function requires voicevox_core v0.16.4 or later.",
     !.minVersion = "v0.16.4"]

frameSynthesis ==
  [synthesis EXCEPT !.name = "frameSynthesis",
     !.entry = "voicevox_synthesizer_frame_synthesis", !.defaults = "",
     !.optional = TRUE,
     !.unsupported = "voicevox_synthesizer_frame_synthesis is not available. This function requires voicevox_core v0.16.4 or later.",
     !.minVersion = "v0.16.4"]

\* --- api/validation.ts

validateAudioQuery ==
  [WrapperShape EXCEPT !.name = "validateAudioQuery",
     !.entry = "voicevox_audio_query_validate"]

validateScore ==
  [WrapperShape EXCEPT !.name = "validateScore",
     !.entry = "voicevox_score_validate", !.optional = TRUE,
     !.unsupported = "voicevox_score_validate is not available in this version of voicevox_core"]

validateNote ==
  [WrapperShape EXCEPT !.name = "validateNote",
     !.entry = "voicevox_note_validate", !.optional = TRUE,
     !.unsupported = "voicevox_note_validate is not available in this version of voicevox_core"]

\* The low-level API.
Wrappers ==
  {loadOnnxruntime, getOnnxruntimeSupportedDevicesJson, getVersion,
   createOpenJtalk, deleteOpenJtalk, useUserDict, analyze, createUserDict,
   loadUserDict, userDictToJson, importUserDict, saveUserDict, deleteUserDict,
   openVoiceModelFile, getVoiceModelId, getVoiceModelMetasJson,
   closeVoiceModelFile, createSynthesizer, deleteSynthesizer, loadVoiceModel,
   unloadVoiceModel, isGpuMode, isLoadedVoiceModel, getSynthesizerMetasJson,
   createAudioQuery, createAudioQueryFromKana, createAccentPhrases,
   createAccentPhrasesFromKana, createAudioQueryFromAccentPhrases, synthesis,
   synthesis_freeWav, tts, ttsFromKana, createSingFrameAudioQuery,
   createSingFrameF0, createSingFrameVolume, frameSynthesis,
   validateAudioQuery, validateScore, validateNote}

WrapperNamed(n) == CHOOSE w \in Wrappers : w.name = n

\* The optional entry points: present from voicevox_core v0.16.4 on.
OptionalEntries == {w.entry : w \in {x \in Wrappers : x.optional}}

\* The call tables a loaded library can give: every optional entry point
\* (v0.16.4 and later) or none of them (an older library).
CallTables == {{}, OptionalEntries}

\* -------------------------------------------------------------------- state

VARIABLES
  hState,      \* native side: each handle is "unalloc", "live" or "deleted"
  hKind,       \* native side: the kind of each handle given out
  ortLoaded,   \* native side: the process-wide ONNX Runtime instance exists
  present,     \* the optional entry points the loaded library's call table has
  client,      \* the VoicevoxClient object: its closure variables
  modelFile,   \* the VoicevoxModelFile object: its closure variables
  op,          \* the operation the caller last started: its position and result
  trace,       \* what that operation invoked and did, in order
  started,     \* how many operations, other than close calls, were started
  library,     \* ffi/library.ts `let library`: the loaded instance, 0 for null
  cachedFunctions, \* `let cachedFunctions`: the instance its call table was
               \* declared over, 0 for null
  loads,       \* how many times koffi.load ran for the module-level cache
  call,        \* the last call made through the module-level cache
  uuid         \* a UUID under conversion: the input and what was made of it

vars ==
  <<hState, hKind, ortLoaded, present, client, modelFile, op, trace, started,
    library, cachedFunctions, loads, call, uuid>>

\* The state of the handles, the client and the operation in progress.
handleVars ==
  <<hState, hKind, ortLoaded, present, client, modelFile, op, trace, started>>

\* The module-level caches.
cacheVars == <<library, cachedFunctions, loads, call>>

\* The caller may start another operation: none is suspended, and the
\* behaviour's budget of operations is not used up.
CanStart == op.pc # "awaiting" /\ started < MaxOps

(* No operation yet.
     name, via   the operation, and the layer it belongs to (api, client, model)
     w, a, b     the wrapper it is in, and the handles passed to it
     pc          idle, run, awaiting (suspended at an await), returned, thrown
     stage, n, h a client operation's position, its paths left, the handle it holds
     err, val    the error raised, the handle returned
   and what an observer of the native side notes about the operation:
     startedDisposed  the client's disposed flag when it started
     argDeleted  a handle passed to it was already destroyed when it started
     code, nullPtr    the last native answer: result code, null pointer
     failed      the nonzero result code a native call of it answered, or 0
     nullSeen    a native call of it reported success with a null pointer
     made        how many handles the native side gave out to it
     absent      it found its optional entry point missing
     stale       it invoked a native entry point with a destroyed handle
     raced       a handle was destroyed while its native call was running
     nullUse     it decoded or freed a null pointer
     buf         the native-owned buffer of its current wrapper:
                 none, live, freed, twice
     leaked      it left a wrapper with a buffer still live
   and the promise promisifyKoffiAsync returned to its current wrapper:
     promise     none, pending, resolved, rejected
     settles     how often the adapter's callback called resolve or reject
     res, reason the value it was resolved with, the error it was rejected with
     submitFailed  the submission mechanism reported an error to the callback *)
OpIdle ==
  [name |-> "", via |-> "none", w |-> "", a |-> 0, b |-> 0, pc |-> "idle",
   stage |-> "", n |-> 0, h |-> 0, startedDisposed |-> FALSE,
   argDeleted |-> FALSE, code |-> 0, nullPtr |-> FALSE, absent |-> FALSE,
   stale |-> FALSE, raced |-> FALSE, nullUse |-> FALSE, buf |-> "none",
   leaked |-> FALSE, failed |-> 0, nullSeen |-> FALSE, err |-> NoErr,
   val |-> 0, promise |-> "none", settles |-> 0, res |-> 0, reason |-> NoErr,
   submitFailed |-> FALSE, made |-> 0, asyncFn |-> FALSE,
   stalled |-> FALSE, paths |-> 0]

NoClient == [state |-> "none", disposed |-> FALSE, synthesizer |-> 0, openJtalk |-> 0]

NoModelFile == [state |-> "none", modelDisposed |-> FALSE, handle |-> 0]

\* The whole state as one value, threaded through the steps of a handler.
Frame ==
  [hs |-> hState, hk |-> hKind, ort |-> ortLoaded, cl |-> client,
   mf |-> modelFile, op |-> op, tr |-> trace]

Commit(f) ==
  /\ hState' = f.hs
  /\ hKind' = f.hk
  /\ ortLoaded' = f.ort
  /\ client' = f.cl
  /\ modelFile' = f.mf
  /\ op' = f.op
  /\ trace' = f.tr
  /\ started' = (IF op.pc = "awaiting" \/ f.op.name \in {"close", "dispose"}
                   THEN started ELSE started + 1)
  /\ UNCHANGED <<present, cacheVars, uuid>>

\* ------------------------------------------------------- the native double

\* What one native call answers: its result code, whether the pointer it
\* yields is null, whether decoding its buffer raises, whether the decoded text
\* parses, and whether the submission to the worker itself failed.
Answer(code, null, decodeOk, parseOk, submitOk) ==
  [code |-> code, null |-> null, decodeOk |-> decodeOk, parseOk |-> parseOk,
   submitOk |-> submitOk]

Success == Answer(Ok, FALSE, TRUE, TRUE, TRUE)

Answers ==
  {Answer(c, FALSE, TRUE, TRUE, TRUE) : c \in ResultCodes}
    \cup {Answer(Ok, TRUE, TRUE, TRUE, TRUE), Answer(Ok, TRUE, FALSE, TRUE, TRUE),
          Answer(Ok, FALSE, FALSE, TRUE, TRUE), Answer(Ok, FALSE, TRUE, FALSE, TRUE),
          Answer(Ok, FALSE, TRUE, TRUE, FALSE)}

HasCode(w) == w.ret \in {"code", "handle", "json", "wav"}

YieldsBuffer(w) == w.ret \in {"json", "wav", "ptrjson"}

YieldsHandle(w) == w.ret \in {"handle", "ptrhandle"}

FreeHandles(f) == {h \in Handles : f.hs[h] = "unalloc"}

Deleted(f, h) == h \in Handles /\ f.hs[h] = "deleted"

\* The answers a call of wrapper w can get in state f: only the parts the
\* wrapper reads vary, and a handle is given out only while the double has one.
CanAnswer(f, w, parses, ans) ==
  /\ ans.code # Ok => HasCode(w)
  /\ ans.null => (YieldsBuffer(w) \/ YieldsHandle(w))
  /\ ~ans.decodeOk => YieldsBuffer(w)
  /\ ~ans.parseOk => (YieldsBuffer(w) /\ parses)
  /\ ~ans.submitOk => w.async
  /\ (YieldsHandle(w) /\ w.makes # "ort" /\ ans.code = Ok /\ ~ans.null)
       => FreeHandles(f) # {}

\* The handles of kind k a caller can hold: every one given out so far,
\* destroyed or not (the type system tells the kinds apart, nothing else).
Held(k) ==
  IF k = "none" THEN {0}
  ELSE IF k = "ort" THEN (IF ortLoaded THEN {0} ELSE {})
  ELSE {h \in Handles : hKind[h] = k /\ hState[h] # "unalloc"}

Emit(f, e) == [f EXCEPT !.tr = Append(@, e)]

\* The native entry point of w is invoked with handles a and b.
Invoke(f, w, a, b) ==
  [Emit(f, w.entry) EXCEPT !.op.stale = @ \/ Deleted(f, a) \/ Deleted(f, b)]

\* The native call completes with answer ans: its effect on the native side
\* and on the out-parameters.
Effect(f, w, a, b, ans) ==
  LET g == [f EXCEPT !.op.raced = @ \/ (~f.op.stale /\ (Deleted(f, a) \/ Deleted(f, b))),
                     !.op.code = ans.code,
                     !.op.nullPtr = ans.null,
                     !.op.failed = IF ans.code # Ok THEN ans.code ELSE @,
                     !.op.nullSeen = @ \/ (ans.code = Ok /\ ans.null)]
      h == CHOOSE x \in FreeHandles(f) : \A y \in FreeHandles(f) : x <= y
  IN CASE w.ret = "delete" /\ a \in Handles -> [g EXCEPT !.hs[a] = "deleted"]
       [] YieldsHandle(w) /\ ans.code = Ok /\ ~ans.null /\ w.makes = "ort" ->
            [g EXCEPT !.ort = TRUE]
       [] YieldsHandle(w) /\ ans.code = Ok /\ ~ans.null /\ w.makes # "ort" ->
            [g EXCEPT !.hs[h] = "live", !.hk[h] = w.makes, !.op.val = h,
                      !.op.made = @ + 1]
       [] YieldsBuffer(w) /\ ans.code = Ok /\ ~ans.null -> [g EXCEPT !.op.buf = "live"]
       [] OTHER -> g

\* ------------------------------------------------- the body of a wrapper

Thrown(f) == f.op.pc = "thrown"

\* Leaving a wrapper: a buffer still live at that point is never freed.
Throw(f, e) ==
  [f EXCEPT !.op.pc = "thrown", !.op.err = e,
            !.op.leaked = @ \/ (f.op.buf = "live")]

Return(f) ==
  [f EXCEPT !.op.pc = "returned", !.op.leaked = @ \/ (f.op.buf = "live")]

\* A wrapper that does not probe its optional entry point.
Probe_skipped(f, w) == f

\* if (!functions.<entry>) { throw new Error("<entry> is not available ...") }
Probe(f, w) ==
  IF w.optional /\ w.entry \notin present
    THEN Throw([f EXCEPT !.op.absent = TRUE], Error(w.unsupported))
    ELSE f

\* const defaultOptions = functions.voicevox_make_default_..._options()
MakeDefaults(f, w) == IF w.defaults # "" THEN Emit(f, w.defaults) ELSE f

\* A wrapper that does not look at the result code.
CheckResult_ignored(f, w) == f

\* if (resultCode !== VoicevoxResultCode.Ok) {
\*   const message = functions.voicevox_error_result_to_message(resultCode);
\*   throw new VoicevoxError(resultCode, message); }
CheckResult(f, w) ==
  IF HasCode(w) /\ f.op.code # Ok
    THEN Throw(Emit(f, "voicevox_error_result_to_message"),
               VoicevoxError(f.op.code, voicevox_error_result_to_message(f.op.code)))
    ELSE f

\* if (ptr == null) { throw new Error("...: null pointer returned") }
CheckNull(f, w) ==
  IF w.nullCheck /\ f.op.nullPtr THEN Throw(f, Error(w.nullMsg)) ELSE f

\* const length = outLength[0]; koffi.decode(ptr, ...): the buffer is copied
\* into a managed value, which may raise.
DecodeBuffer(f, w, ans) ==
  LET g == IF w.ret = "wav" THEN Emit(f, "readLength") ELSE f
      d == [Emit(g, "decode") EXCEPT !.op.nullUse = @ \/ f.op.nullPtr]
  IN IF ans.decodeOk THEN d ELSE Throw(d, DecodeError)

\* functions.voicevox_json_free(ptr) / voicevox_wav_free(ptr), or the helpers
\* freeJson / freeWav, which return at once on a null pointer.
FreeBuffer(f, w) ==
  IF w.helper /\ f.op.nullPtr THEN f
  ELSE [Emit(f, w.free) EXCEPT
          !.op.buf = IF f.op.nullPtr THEN @ ELSE IF @ = "live" THEN "freed" ELSE "twice",
          !.op.nullUse = @ \/ f.op.nullPtr]

\* return JSON.parse(jsonStr)
ParseJson(f, parses, ans) ==
  IF ~parses THEN f
  ELSE IF ans.parseOk THEN Emit(f, "parse") ELSE Throw(Emit(f, "parse"), SyntaxError)

\* A wrapper that frees the buffer before it reads the length and decodes.
Continue_freeFirst(f, w, ans) ==
  LET c == CheckResult(f, w)
      n == CheckNull(c, w)
      d == DecodeBuffer(FreeBuffer(n, w), w, ans)
      p == ParseJson(d, w.parse, ans)
  IN IF Thrown(c) THEN c
     ELSE IF Thrown(n) THEN n
     ELSE IF ~YieldsBuffer(w) THEN Return(n)
     ELSE IF Thrown(d) THEN d
     ELSE IF Thrown(p) THEN p
     ELSE Return(p)

\* The wrapper's code after the native call has answered.
Continue(f, w, ans) ==
  LET c == CheckResult(f, w)
      n == CheckNull(c, w)
      d == DecodeBuffer(n, w, ans)
      p == ParseJson(FreeBuffer(d, w), w.parse, ans)
  IN IF Thrown(c) THEN c
     ELSE IF Thrown(n) THEN n
     ELSE IF ~YieldsBuffer(w) THEN Return(n)
     ELSE IF Thrown(d) THEN d
     ELSE IF Thrown(p) THEN p
     ELSE Return(p)

\* The wrapper's code up to the native call.
Begin(f, w) ==
  LET g == Probe([f EXCEPT !.op.w = w.name, !.op.pc = "run", !.op.buf = "none",
                           !.op.code = Ok, !.op.nullPtr = FALSE, !.op.val = 0,
                           !.op.promise = "none", !.op.settles = 0, !.op.res = 0,
                           !.op.reason = NoErr, !.op.submitFailed = FALSE], w)
  IN IF Thrown(g) THEN g ELSE MakeDefaults(g, w)

\* The native entry points that read files from disk or run inference:
\* loading the ONNX Runtime library, loading the system dictionary and a user
\* dictionary, opening a model file and loading it, and the synthesis calls.
BlockingEntries ==
  {"voicevox_onnxruntime_load_once", "voicevox_open_jtalk_rc_new",
   "voicevox_user_dict_load", "voicevox_voice_model_file_open",
   "voicevox_synthesizer_load_voice_model", "voicevox_synthesizer_synthesis",
   "voicevox_synthesizer_tts", "voicevox_synthesizer_tts_from_kana",
   "voicevox_synthesizer_frame_synthesis"}

\* A wrapper that calls its entry point plainly: the caller's thread runs the
\* native code and is stalled for as long as the entry point takes.
RunSync(f, w, a, b, ans) ==
  LET g == Begin(f, w)
      i == [Invoke(g, w, a, b) EXCEPT
              !.op.stalled = @ \/ w.entry \in BlockingEntries]
  IN IF Thrown(g) THEN g
     ELSE Continue(Effect(i, w, a, b, ans), w, ans)

\* promisifyKoffiAsync(func, ...args): func.async(...args, callback); the
\* wrapper is suspended at its await until the callback settles the promise.
Submit(f, w, a, b) ==
  LET g == Begin(f, w)
  IN IF Thrown(g) THEN g
     ELSE [Invoke(g, w, a, b) EXCEPT !.op.pc = "awaiting", !.op.a = a, !.op.b = b,
                                     !.op.promise = "pending"]

\* resolve(res) and reject(err) of the promise: only the first call settles it.
resolve(f, res) ==
  [f EXCEPT !.op.settles = @ + 1,
            !.op.promise = IF @ = "pending" THEN "resolved" ELSE @,
            !.op.res = IF f.op.promise = "pending" THEN res ELSE @]

reject(f, e) ==
  [f EXCEPT !.op.settles = @ + 1,
            !.op.promise = IF @ = "pending" THEN "rejected" ELSE @,
            !.op.reason = IF f.op.promise = "pending" THEN e ELSE @]

\* A callback without the else: it resolves after it has rejected.
Callback_noElse(f, e, res) ==
  IF e # NoErr THEN resolve(reject(f, e), res) ELSE resolve(f, res)

\* A callback that rejects when the native call answers a nonzero code.
Callback_rejectOnCode(f, e, res) ==
  IF e # NoErr \/ res # Ok THEN reject(f, SubmitError) ELSE resolve(f, res)

\* (err, res) => { if (err) { reject(err); } else { resolve(res); } }
Callback(f, e, res) ==
  IF e # NoErr THEN reject(f, e) ELSE resolve(f, res)

\* The worker is done: the native call has run (unless the submission
\* failed), the callback settles the promise, and the wrapper goes on after
\* its await, with the value the promise was resolved with as resultCode.
Settle(f, w, ans) ==
  LET n == IF ans.submitOk THEN Effect(f, w, f.op.a, f.op.b, ans) ELSE f
      g == Callback([n EXCEPT !.op.submitFailed = ~ans.submitOk],
                    IF ans.submitOk THEN NoErr ELSE SubmitError, ans.code)
  IN IF g.op.promise = "rejected" THEN Throw(g, g.op.reason)
     ELSE Continue([g EXCEPT !.op.code = g.op.res], w, ans)

\* -------------------------------------------------------- low-level API

\* The client's methods declared without `async`: getLoadedSpeakers,
\* getVersion, the isGpuMode getter and close. Every other method of the
\* client is an async function.
PlainClientMethods ==
  {"getLoadedSpeakers", "getVersion", "isGpuMode", "close", "dispose",
   "synthesizerHandle", "openJtalkHandle"}

\* Whether the function the caller calls is declared `async`: what an async
\* function throws, at any point of its body, reaches the caller as the
\* rejection of the promise the call returned.
DeclaredAsync(name, via) ==
  CASE via = "api" -> WrapperNamed(name).async
    [] via = "client" -> name \notin PlainClientMethods
    [] OTHER -> FALSE

StartOp(name, via, a, b) ==
  [Frame EXCEPT !.tr = <<>>,
     !.op = [OpIdle EXCEPT !.name = name, !.via = via, !.a = a, !.b = b,
               !.pc = "run", !.asyncFn = DeclaredAsync(name, via),
               !.startedDisposed = IF via = "model" THEN modelFile.modelDisposed
                                   ELSE client.disposed,
               !.argDeleted = Deleted(Frame, a) \/ Deleted(Frame, b)]]

\* The caller calls a plain wrapper of the low-level API.
ApiCall(w, a, b, ans) ==
  /\ CanStart
  /\ ~w.async
  /\ a \in Held(w.argA)
  /\ b \in Held(w.argB)
  /\ CanAnswer(Frame, w, w.parse, ans)
  /\ Commit(RunSync(StartOp(w.name, "api", a, b), w, a, b, ans))

\* The caller calls an async wrapper of the low-level API, which runs up to
\* its await.
ApiStart(w, a, b) ==
  /\ CanStart
  /\ w.async
  /\ a \in Held(w.argA)
  /\ b \in Held(w.argB)
  /\ Commit(Submit(StartOp(w.name, "api", a, b), w, a, b))

\* The answers wrapper w reads (the others would change nothing it does).
AnswersOf(w, parses) ==
  {ans \in Answers :
     /\ ans.code # Ok => HasCode(w)
     /\ ans.null => (YieldsBuffer(w) \/ YieldsHandle(w))
     /\ ~ans.decodeOk => YieldsBuffer(w)
     /\ ~ans.parseOk => (YieldsBuffer(w) /\ parses)
     /\ ~ans.submitOk => w.async}

\* ------------------------------------------------------------ the client

\* How many paths (or model files) one client call is given at most.
MaxPaths == 2

\* The client object createVoicevoxClient returns.
ClientOf(synthesizer, openJtalk) ==
  [state |-> "ready", disposed |-> FALSE, synthesizer |-> synthesizer,
   openJtalk |-> openJtalk]

\* The VoicevoxModelFile object createModelFileObject returns.
createModelFileObject(handle) ==
  [state |-> "ready", modelDisposed |-> FALSE, handle |-> handle]

\* ensureNotDisposed without its test of the flag.
ensureNotDisposed_skipped(f) == f

\* function ensureNotDisposed() {
\*   if (disposed) { throw new Error("VoicevoxClient has been disposed"); } }
ensureNotDisposed(f) ==
  IF f.cl.disposed THEN Throw(f, Error("VoicevoxClient has been disposed")) ELSE f

\* close() without its early return.
close_unguarded(f) ==
  LET d == [f EXCEPT !.cl.disposed = TRUE]
      s == RunSync(d, deleteSynthesizer, f.cl.synthesizer, 0, Success)
  IN RunSync(s, deleteOpenJtalk, f.cl.openJtalk, 0, Success)

\* close() destroying the analyzer before the synthesizer.
close_analyzerFirst(f) ==
  IF f.cl.disposed THEN Return(f)
  ELSE LET d == [f EXCEPT !.cl.disposed = TRUE]
           o == RunSync(d, deleteOpenJtalk, f.cl.openJtalk, 0, Success)
       IN RunSync(o, deleteSynthesizer, f.cl.synthesizer, 0, Success)

\* close() that also tears the ONNX Runtime down.
close_destroysRuntime(f) ==
  IF f.cl.disposed THEN Return(f)
  ELSE LET d == [f EXCEPT !.cl.disposed = TRUE]
           s == RunSync(d, deleteSynthesizer, f.cl.synthesizer, 0, Success)
           o == RunSync(s, deleteOpenJtalk, f.cl.openJtalk, 0, Success)
       IN [o EXCEPT !.ort = FALSE]

\* close() { if (disposed) return; disposed = true;
\*           deleteSynthesizer(functions, synthesizer);
\*           deleteOpenJtalk(functions, openJtalk); }
close(f) ==
  IF f.cl.disposed THEN Return(f)
  ELSE LET d == [f EXCEPT !.cl.disposed = TRUE]
           s == RunSync(d, deleteSynthesizer, f.cl.synthesizer, 0, Success)
       IN RunSync(s, deleteOpenJtalk, f.cl.openJtalk, 0, Success)

\* The model file object's close() { if (modelDisposed) return;
\*   modelDisposed = true; closeVoiceModelFile(functions, handle); }
closeModelFile(f) ==
  IF f.mf.modelDisposed THEN Return(f)
  ELSE RunSync([f EXCEPT !.mf.modelDisposed = TRUE], closeVoiceModelFile,
               f.mf.handle, 0, Success)

(* The client operations that make one call of a wrapper:
     w      the wrapper
     arg    what it passes: the synthesizer handle ("synth") or no handle
     parses the client puts the wrapper's text through JSON.parse          *)
ClientOp(name, w, arg, parses) ==
  [name |-> name, w |-> w, arg |-> arg, parses |-> parses]

ClientOps ==
  {ClientOp("tts", tts, "synth", FALSE),
   ClientOp("ttsFromKana", ttsFromKana, "synth", FALSE),
   ClientOp("createAudioQuery", createAudioQuery, "synth", FALSE),
   ClientOp("createAudioQueryFromKana", createAudioQueryFromKana, "synth", FALSE),
   ClientOp("createAccentPhrases", createAccentPhrases, "synth", FALSE),
   ClientOp("createAccentPhrasesFromKana", createAccentPhrasesFromKana, "synth", FALSE),
   ClientOp("createAudioQueryFromAccentPhrases", createAudioQueryFromAccentPhrases,
            "none", FALSE),
   ClientOp("synthesize", synthesis, "synth", FALSE),
   ClientOp("createSingFrameAudioQuery", createSingFrameAudioQuery, "synth", FALSE),
   ClientOp("frameSynthesize", frameSynthesis, "synth", FALSE),
   ClientOp("getLoadedSpeakers", getSynthesizerMetasJson, "synth", TRUE),
   ClientOp("getVersion", getVersion, "none", FALSE),
   ClientOp("isGpuMode", isGpuMode, "synth", FALSE)}

ArgOf(f, c) == IF c.arg = "synth" THEN f.cl.synthesizer ELSE 0

\* The client's own JSON.parse of what a wrapper returned.
ThenParse(f, parses, ans) == IF Thrown(f) THEN f ELSE ParseJson(f, parses, ans)

\* One turn of the loops over paths: open the next file, or return.
OpenNext(f) ==
  IF f.op.n = 0 THEN Return(f)
  ELSE Submit([f EXCEPT !.op.stage = "open"], openVoiceModelFile, 0, 0)

\* loadModels: load the next model file of the list, or return.
LoadNext(f) ==
  IF f.op.n = 0 THEN Return(f)
  ELSE Submit([f EXCEPT !.op.stage = "load"], loadVoiceModel, f.cl.synthesizer,
              f.mf.handle)

\* A plain call after the try block instead of finally: the file is closed
\* only when the block did not raise.
FinallyClose_onlyOnSuccess(f, h) ==
  IF Thrown(f) THEN f ELSE RunSync(f, closeVoiceModelFile, h, 0, Success)

\* ... finally { closeVoiceModelFile(functions, handle); }: the file is
\* closed, and what the try block raised is raised again.
FinallyClose(f, h) ==
  LET c == RunSync(f, closeVoiceModelFile, h, 0, Success)
  IN IF Thrown(f) THEN Throw(c, f.op.err) ELSE c


\* createVoicevoxClient without the catch block around createSynthesizer.
CreateClientStep_noCatch(r) ==
  CASE r.op.stage = "ort" ->
         IF Thrown(r) THEN r
         ELSE Submit([r EXCEPT !.op.stage = "ojt"], createOpenJtalk, 0, 0)
    [] r.op.stage = "ojt" ->
         IF Thrown(r) THEN r
         ELSE Submit([r EXCEPT !.op.stage = "synth", !.op.h = r.op.val],
                     createSynthesizer, r.op.val, 0)
    [] OTHER ->
         IF Thrown(r) THEN r
         ELSE Return([r EXCEPT !.cl = ClientOf(r.op.val, r.op.h)])

\* createVoicevoxClient after each of its awaits (loadOnnxruntime,
\* createOpenJtalk, createSynthesizer); the catch block around the last
\* destroys the text analyzer and raises the error again.
CreateClientStep(r) ==
  CASE r.op.stage = "ort" ->
         IF Thrown(r) THEN r
         ELSE Submit([r EXCEPT !.op.stage = "ojt"], createOpenJtalk, 0, 0)
    [] r.op.stage = "ojt" ->
         IF Thrown(r) THEN r
         ELSE Submit([r EXCEPT !.op.stage = "synth", !.op.h = r.op.val],
                     createSynthesizer, r.op.val, 0)
    [] OTHER ->
         IF Thrown(r)
           THEN Throw(RunSync(r, deleteOpenJtalk, r.op.h, 0, Success), r.op.err)
           ELSE Return([r EXCEPT !.cl = ClientOf(r.op.val, r.op.h)])

\* loadVoiceModelFromPath after its awaits: openVoiceModelFile, then
\* loadVoiceModel inside try ... finally.
\* The loop of loadVoiceModelFromPath going on to the next path when the open
\* or the load of one fails.
LoadFromPathStep_skipFailed(r) ==
  IF r.op.stage = "open"
    THEN IF Thrown(r) THEN OpenNext([r EXCEPT !.op.n = @ - 1])
         ELSE Submit([r EXCEPT !.op.stage = "load", !.op.h = r.op.val],
                     loadVoiceModel, r.cl.synthesizer, r.op.val)
    ELSE OpenNext([RunSync(r, closeVoiceModelFile, r.op.h, 0, Success)
                     EXCEPT !.op.n = @ - 1])

LoadFromPathStep(r) ==
  IF r.op.stage = "open"
    THEN IF Thrown(r) THEN r
         ELSE Submit([r EXCEPT !.op.stage = "load", !.op.h = r.op.val],
                     loadVoiceModel, r.cl.synthesizer, r.op.val)
    ELSE LET c == FinallyClose(r, r.op.h)
         IN IF Thrown(c) THEN c ELSE OpenNext([c EXCEPT !.op.n = @ - 1])

\* The metas and the id of the open file h are read: getVoiceModelMetasJson,
\* JSON.parse, getVoiceModelId.
ReadMeta(f, h, ans) ==
  LET m == ThenParse(RunSync(f, getVoiceModelMetasJson, h, 0, ans), TRUE, ans)
  IN IF Thrown(m) THEN m ELSE RunSync(m, getVoiceModelId, h, 0, Success)

\* peekModelFilesMeta after its await of openVoiceModelFile.
\* The step of peekModelFilesMeta with the close after the try block, not in
\* a finally.
PeekStep_noFinally(r, ans) ==
  IF Thrown(r) THEN r
  ELSE LET m == ReadMeta(r, r.op.val, ans)
       IN IF Thrown(m) THEN m
          ELSE OpenNext([RunSync(m, closeVoiceModelFile, r.op.val, 0, Success)
                           EXCEPT !.op.n = @ - 1])

PeekStep(r, ans) ==
  IF Thrown(r) THEN r
  ELSE LET c == FinallyClose(ReadMeta(r, r.op.val, ans), r.op.val)
       IN IF Thrown(c) THEN c ELSE OpenNext([c EXCEPT !.op.n = @ - 1])

\* openModelFile after its await of openVoiceModelFile.
OpenModelFileStep(r, ans) ==
  IF Thrown(r) THEN r
  ELSE LET m == ReadMeta(r, r.op.val, ans)
       IN IF Thrown(m) THEN m
          ELSE Return([m EXCEPT !.mf = createModelFileObject(r.op.val),
                                !.op.val = r.op.val])

\* loadModels after its await of loadVoiceModel.
LoadModelsStep(r) ==
  IF Thrown(r) THEN r ELSE LoadNext([r EXCEPT !.op.n = @ - 1])

\* sing after its awaits: createSingFrameAudioQuery, then frameSynthesis.
SingStep(r) ==
  IF r.op.stage = "query"
    THEN IF Thrown(r) THEN r
         ELSE Submit([r EXCEPT !.op.stage = "frames"], frameSynthesis,
                     r.cl.synthesizer, 0)
    ELSE r

\* The operation goes on after the await that has just settled.
AfterAwait(r, ans) ==
  CASE r.op.name = "createVoicevoxClient" -> CreateClientStep(r)
    [] r.op.via = "client" /\ r.op.name = "loadVoiceModelFromPath" -> LoadFromPathStep(r)
    [] r.op.via = "client" /\ r.op.name = "peekModelFilesMeta" -> PeekStep(r, ans)
    [] r.op.via = "client" /\ r.op.name = "openModelFile" -> OpenModelFileStep(r, ans)
    [] r.op.via = "client" /\ r.op.name = "loadModels" -> LoadModelsStep(r)
    [] r.op.via = "client" /\ r.op.name = "sing" -> SingStep(r)
    [] r.op.via = "client" /\ r.op.name = "getLoadedSpeakers" -> r
    [] OTHER -> r

\* What the code after an await of the suspended operation reads from the
\* native side beyond the awaited call's own answer.
Followups ==
  IF op.via = "client" /\ op.name \in {"peekModelFilesMeta", "openModelFile"}
    THEN AnswersOf(getVoiceModelMetasJson, TRUE)
    ELSE {Success}

\* The worker finishes the native call and the suspended operation goes on.
Resume(ans, more) ==
  /\ op.pc = "awaiting"
  /\ op.stage # "readdir"
  /\ CanAnswer(Frame, WrapperNamed(op.w), WrapperNamed(op.w).parse, ans)
  /\ Commit(AfterAwait(Settle(Frame, WrapperNamed(op.w), ans), more))

\* const client = await createVoicevoxClient(options), up to its first await.
CreateClient ==
  /\ CanStart
  /\ client.state = "none"
  /\ Commit(Submit([StartOp("createVoicevoxClient", "client", 0, 0)
                      EXCEPT !.op.stage = "ort"], loadOnnxruntime, 0, 0))

\* A client operation that calls one plain wrapper.
ClientCall(c, ans) ==
  /\ CanStart
  /\ client.state = "ready"
  /\ ~c.w.async
  /\ CanAnswer(Frame, c.w, c.parses, ans)
  /\ LET f == ensureNotDisposed(StartOp(c.name, "client", 0, 0))
     IN Commit(IF Thrown(f) THEN f
               ELSE ThenParse(RunSync(f, c.w, ArgOf(f, c), 0, ans), c.parses, ans))

\* A client operation that returns the promise of one async wrapper.
ClientStart(c) ==
  /\ CanStart
  /\ client.state = "ready"
  /\ c.w.async
  /\ LET f == ensureNotDisposed(StartOp(c.name, "client", 0, 0))
     IN Commit(IF Thrown(f) THEN f ELSE Submit(f, c.w, ArgOf(f, c), 0))

\* client.sing(score, styleId), up to its first await.
Sing ==
  /\ CanStart
  /\ client.state = "ready"
  /\ LET f == ensureNotDisposed(StartOp("sing", "client", 0, 0))
     IN Commit(IF Thrown(f) THEN f
               ELSE Submit([f EXCEPT !.op.stage = "query"],
                           createSingFrameAudioQuery, f.cl.synthesizer, 0))

\* client.loadVoiceModelFromPath(...paths) with n paths, up to its first await.
LoadVoiceModelFromPath(n) ==
  /\ CanStart
  /\ client.state = "ready"
  /\ LET f == ensureNotDisposed(StartOp("loadVoiceModelFromPath", "client", 0, 0))
     IN Commit(IF Thrown(f) THEN f
               ELSE OpenNext([f EXCEPT !.op.n = n, !.op.paths = n]))

\* client.peekModelFilesMeta(dir), up to its await of readdir(dir).
PeekModelFilesMeta ==
  /\ CanStart
  /\ client.state = "ready"
  /\ LET f == ensureNotDisposed(StartOp("peekModelFilesMeta", "client", 0, 0))
     IN Commit(IF Thrown(f) THEN f
               ELSE [f EXCEPT !.op.pc = "awaiting", !.op.stage = "readdir"])

\* readdir(dir) settles: it rejects, or lists n files ending in ".vvm".
ReaddirDone(ok, n) ==
  /\ op.pc = "awaiting"
  /\ op.stage = "readdir"
  /\ Commit(IF ok THEN OpenNext([Frame EXCEPT !.op.n = n])
            ELSE Throw(Frame, [cls |-> "Error", code |-> 0, msg |-> "ENOENT"]))

\* client.openModelFile(path), up to its await.
OpenModelFile ==
  /\ CanStart
  /\ client.state = "ready"
  /\ modelFile.state = "none"
  /\ LET f == ensureNotDisposed(StartOp("openModelFile", "client", 0, 0))
     IN Commit(IF Thrown(f) THEN f
               ELSE Submit([f EXCEPT !.op.stage = "open"], openVoiceModelFile, 0, 0))

\* client.loadModel(modelFile), up to its await.
LoadModel ==
  /\ CanStart
  /\ client.state = "ready"
  /\ modelFile.state = "ready"
  /\ LET f == ensureNotDisposed(StartOp("loadModel", "client", 0, modelFile.handle))
     IN Commit(IF Thrown(f) THEN f
               ELSE Submit(f, loadVoiceModel, f.cl.synthesizer, f.mf.handle))

\* client.loadModels(modelFiles) with a list of n model files, up to its
\* first await.
LoadModels(n) ==
  /\ CanStart
  /\ client.state = "ready"
  /\ (n > 0 => modelFile.state = "ready")
  /\ LET f == ensureNotDisposed(StartOp("loadModels", "client", 0, 0))
     IN Commit(IF Thrown(f) THEN f ELSE LoadNext([f EXCEPT !.op.n = n]))

\* client.close(), or client[Symbol.dispose](), which calls this.close().
\* get synthesizerHandle() { return synthesizer; }
\* get openJtalkHandle() { return openJtalk; }
handleAccessor(f, name) ==
  Return([f EXCEPT !.op.val = IF name = "synthesizerHandle" THEN f.cl.synthesizer
                                ELSE f.cl.openJtalk])

\* The caller reads one of the client's handle accessors.
HandleAccessor(name) ==
  /\ CanStart
  /\ client.state = "ready"
  /\ Commit(handleAccessor(StartOp(name, "client", 0, 0), name))

Close(name) ==
  /\ op.pc # "awaiting"
  /\ client.state = "ready"
  /\ Commit(close(StartOp(name, "client", 0, 0)))

\* client.close() while an operation of the client is suspended at an await:
\* the operation stays suspended, and the deletions join what happened since
\* it started.
CloseDuring ==
  /\ op.pc = "awaiting"
  /\ client.state = "ready"
  /\ ~client.disposed
  /\ Commit([close(Frame) EXCEPT !.op = op])

\* modelFile.close(), or modelFile[Symbol.dispose](), which calls this.close().
CloseModel(name) ==
  /\ op.pc # "awaiting"
  /\ modelFile.state = "ready"
  /\ Commit(closeModelFile(StartOp(name, "model", 0, 0)))

\* No call was made through the module-level cache yet.
NoCall ==
  [fn |-> "", functions |-> 0, lib |-> 0, options |-> <<>>, defaults |-> <<>>,
   passed |-> <<>>]

\* No UUID is under conversion.
NoUuid ==
  [from |-> "none", steps |-> 0, bytes |-> <<>>, text |-> <<>>,
   backBytes |-> <<>>, backText |-> <<>>]

Init ==
  /\ hState = [h \in Handles |-> "unalloc"]
  /\ hKind = [h \in Handles |-> "none"]
  /\ ortLoaded = FALSE
  /\ present \in CallTables
  /\ client = NoClient
  /\ modelFile = NoModelFile
  /\ op = OpIdle
  /\ trace = <<>>
  /\ started = 0
  /\ library = 0
  /\ cachedFunctions = 0
  /\ loads = 0
  /\ call = NoCall
  /\ uuid = NoUuid

Next ==
  \/ /\ CanStart
     /\ \E w \in {x \in Wrappers : ~x.async} :
          \E a \in Held(w.argA), b \in Held(w.argB), ans \in AnswersOf(w, w.parse) :
            ApiCall(w, a, b, ans)
  \/ /\ CanStart
     /\ \E w \in {x \in Wrappers : x.async} :
          \E a \in Held(w.argA), b \in Held(w.argB) : ApiStart(w, a, b)
  \/ /\ op.pc = "awaiting"
     /\ op.stage # "readdir"
     /\ \E ans \in AnswersOf(WrapperNamed(op.w), WrapperNamed(op.w).parse),
           more \in Followups : Resume(ans, more)
  \/ CreateClient
  \/ /\ CanStart
     /\ client.state = "ready"
     /\ \E c \in {x \in ClientOps : ~x.w.async} :
          \E ans \in AnswersOf(c.w, c.parses) : ClientCall(c, ans)
  \/ /\ CanStart
     /\ client.state = "ready"
     /\ \E c \in {x \in ClientOps : x.w.async} : ClientStart(c)
  \/ Sing
  \/ \E n \in 0..MaxPaths : LoadVoiceModelFromPath(n)
  \/ PeekModelFilesMeta
  \/ \E ok \in BOOLEAN, n \in 0..MaxPaths : ReaddirDone(ok, n)
  \/ OpenModelFile
  \/ LoadModel
  \/ \E n \in 0..MaxPaths : LoadModels(n)
  \/ \E name \in {"synthesizerHandle", "openJtalkHandle"} : HandleAccessor(name)
  \/ \E name \in {"close", "dispose"} : Close(name)
  \/ CloseDuring
  \/ \E name \in {"close", "dispose"} : CloseModel(name)

Spec == Init /\ [][Next]_vars

\* ------------------------------------- module-level caches and option structs

\* How many times koffi.load may run in one behaviour.
MaxLoads == 2

\* VoicevoxAccelerationMode: Auto, Cpu, Gpu.
AccelerationModes == 0..2

\* The thread counts a caller or the native default may name; 0 lets the
\* native library choose.
CpuNumThreads == {0, 2}

\* The file names of the ONNX Runtime library a caller or the default may name.
Filenames == {"libvoicevox_onnxruntime.so", "onnxruntime.dll"}

\* An options argument: an object holding some of the fields, each with a value
\* of its type. `undefined` for the whole argument and an object without the
\* field read alike through `options?.field`: both are the function that lacks
\* the field.
OptionsOver(fields, values) ==
  UNION {[d -> values] : d \in SUBSET fields}

InitializeOptions ==
  {a @@ c : a \in OptionsOver({"accelerationMode"}, AccelerationModes),
            c \in OptionsOver({"cpuNumThreads"}, CpuNumThreads)}

SynthesisOptions == OptionsOver({"enableInterrogativeUpspeak"}, BOOLEAN)

LoadOnnxruntimeOptions == OptionsOver({"filename"}, Filenames)

\* What the native make-default-options entry points may answer.
DefaultInitializeOptions ==
  [acceleration_mode : AccelerationModes, cpu_num_threads : CpuNumThreads]

DefaultSynthesisOptions == [enable_interrogative_upspeak : BOOLEAN]

DefaultLoadOnnxruntimeOptions == [filename : Filenames]

\* options?.field ?? dflt: the caller's value unless the field is undefined.
NullishCoalesce(options, field, dflt) ==
  IF field \in DOMAIN options THEN options[field] ELSE dflt

\* An options struct built from the caller's object alone whenever the caller
\* passed any field, the fields it lacks left at zero.
initOptions_fullReplace(options, defaultOptions) ==
  IF DOMAIN options = {} THEN defaultOptions
  ELSE [acceleration_mode |-> NullishCoalesce(options, "accelerationMode", 0),
        cpu_num_threads |-> NullishCoalesce(options, "cpuNumThreads", 0)]

\* const initOptions = {
\*   acceleration_mode: options?.accelerationMode ?? defaultOptions.acceleration_mode,
\*   cpu_num_threads: options?.cpuNumThreads ?? defaultOptions.cpu_num_threads };
initOptions(options, defaultOptions) ==
  [acceleration_mode |-> NullishCoalesce(options, "accelerationMode",
                                         defaultOptions.acceleration_mode),
   cpu_num_threads |-> NullishCoalesce(options, "cpuNumThreads",
                                       defaultOptions.cpu_num_threads)]

\* const synthesisOptions / ttsOptions = { enable_interrogative_upspeak:
\*   options?.enableInterrogativeUpspeak ?? defaultOptions.enable_interrogative_upspeak };
synthesisOptions(options, defaultOptions) ==
  [enable_interrogative_upspeak |->
     NullishCoalesce(options, "enableInterrogativeUpspeak",
                     defaultOptions.enable_interrogative_upspeak)]

\* const loadOptions = { filename: options?.filename ?? defaultOptions.filename };
loadOptions(options, defaultOptions) ==
  [filename |-> NullishCoalesce(options, "filename", defaultOptions.filename)]

\* The module-level caches as one value, with what the function returned.
Cache ==
  [library |-> library, cachedFunctions |-> cachedFunctions, loads |-> loads,
   ret |-> 0]

\* loadLibrary() { if (library) return library;
\*                 library = koffi.load(libPath); return library; }
\* Each koffi.load yields a new instance, numbered in the order of loading.
loadLibrary(c) ==
  IF c.library # 0 THEN [c EXCEPT !.ret = c.library]
  ELSE [c EXCEPT !.loads = @ + 1, !.library = c.loads + 1, !.ret = c.loads + 1]

\* unloadLibrary() { library = null; }
unloadLibrary(c) == [c EXCEPT !.library = 0, !.ret = 0]

\* getFunctions() { if (!cachedFunctions) { const lib = loadLibrary();
\*     cachedFunctions = declareFunctions(lib); } return cachedFunctions; }
\* A call table is identified by the instance it was declared over.
getFunctions(c) ==
  IF c.cachedFunctions = 0
    THEN LET l == loadLibrary(c)
         IN [l EXCEPT !.cachedFunctions = l.ret]
    ELSE [c EXCEPT !.ret = c.cachedFunctions]

\* koffi.load may still run, or the call at hand needs no load.
CanLoad == library # 0 \/ loads < MaxLoads

CommitCache(c, made) ==
  /\ library' = c.library
  /\ cachedFunctions' = c.cachedFunctions
  /\ loads' = c.loads
  /\ call' = made
  /\ UNCHANGED <<handleVars, uuid>>

\* The caller calls loadLibrary().
LoadLibrary ==
  /\ CanLoad
  /\ LET c == loadLibrary(Cache)
     IN CommitCache(c, [NoCall EXCEPT !.fn = "loadLibrary", !.lib = c.ret])

\* The caller calls unloadLibrary().
UnloadLibrary ==
  /\ loads \in 0..MaxLoads
  /\ CommitCache(unloadLibrary(Cache), [NoCall EXCEPT !.fn = "unloadLibrary"])

\* createSynthesizer(onnxruntime, openJtalk, options) of the API that keeps
\* its call table in the module: getFunctions(), the native defaults, the
\* merged struct handed to voicevox_synthesizer_new.
CreateSynthesizerCached(options, defaultOptions) ==
  /\ CanLoad
  /\ LET c == getFunctions(Cache)
     IN CommitCache(c, [fn |-> "createSynthesizer", functions |-> c.ret,
                        lib |-> 0, options |-> options,
                        defaults |-> defaultOptions,
                        passed |-> initOptions(options, defaultOptions)])

\* synthesis(...) and tts(...) of that API: getFunctions(), loadLibrary() for
\* the later freeWav(lib, ...), the native defaults, the merged struct handed
\* to the native synthesis call.
SynthesisCached(fn, options, defaultOptions) ==
  /\ CanLoad
  /\ LET c == getFunctions(Cache)
         l == loadLibrary(c)
     IN /\ l.loads <= MaxLoads
        /\ CommitCache(l, [fn |-> fn, functions |-> c.ret, lib |-> l.ret,
                           options |-> options, defaults |-> defaultOptions,
                           passed |-> synthesisOptions(options, defaultOptions)])

\* loadOnnxruntime(functions, options): the native defaults and the merged
\* struct handed to voicevox_onnxruntime_load_once. The call table is the
\* caller's: the module-level cache is not read.
LoadOnnxruntimeCall(options, defaultOptions) ==
  /\ options \in LoadOnnxruntimeOptions
  /\ CommitCache(Cache, [fn |-> "loadOnnxruntime", functions |-> 0, lib |-> 0,
                         options |-> options, defaults |-> defaultOptions,
                         passed |-> loadOptions(options, defaultOptions)])

NextCached ==
  \/ LoadLibrary
  \/ UnloadLibrary
  \/ \E o \in InitializeOptions, d \in DefaultInitializeOptions :
       CreateSynthesizerCached(o, d)
  \/ \E fn \in {"synthesis", "tts"}, o \in SynthesisOptions,
        d \in DefaultSynthesisOptions : SynthesisCached(fn, o, d)
  \/ \E o \in LoadOnnxruntimeOptions, d \in DefaultLoadOnnxruntimeOptions :
       LoadOnnxruntimeCall(o, d)

SpecCached == Init /\ [][NextCached]_vars

\* ------------------------------------------------- utils: UUID conversion

\* A string is the sequence of its characters.
HexDigits ==
  <<"0", "1", "2", "3", "4", "5", "6", "7", "8", "9", "a", "b", "c", "d", "e", "f">>

UpperDigits == <<"A", "B", "C", "D", "E", "F">>

\* How many positions of a sample input differ from the sample it was made of.
MaxEdits == 1

\* The value of a character as a digit of radix 16, or -1 when it is none.
DigitValue(c) ==
  IF \E i \in 1..16 : HexDigits[i] = c
    THEN (CHOOSE i \in 1..16 : HexDigits[i] = c) - 1
    ELSE IF \E i \in 1..6 : UpperDigits[i] = c
           THEN (CHOOSE i \in 1..6 : UpperDigits[i] = c) + 9
           ELSE -1

\* The longest prefix of s made of digits of radix 16.
RECURSIVE DigitPrefix(_)
DigitPrefix(s) ==
  IF s = <<>> \/ DigitValue(Head(s)) < 0 THEN <<>>
  ELSE <<Head(s)>> \o DigitPrefix(Tail(s))

RECURSIVE DigitsValue(_, _)
DigitsValue(s, acc) ==
  IF s = <<>> THEN acc ELSE DigitsValue(Tail(s), acc * 16 + DigitValue(Head(s)))

\* parseInt(s, 16): an optional sign, then the digits up to the first
\* character that is none; NaN when there is no digit.
parseInt16(s) ==
  LET neg == s # <<>> /\ Head(s) = "-"
      digits == DigitPrefix(IF neg THEN Tail(s) ELSE s)
  IN IF digits = <<>> THEN [nan |-> TRUE, val |-> 0]
     ELSE [nan |-> FALSE,
           val |-> IF neg THEN 0 - DigitsValue(digits, 0) ELSE DigitsValue(digits, 0)]

\* parseInt(s, 10) in the place of parseInt(s, 16): a to f end the number.
parseInt10(s) ==
  LET neg == s # <<>> /\ Head(s) = "-"
      digits == DigitPrefix(IF neg THEN Tail(s) ELSE s)
      dec == IF \E i \in 1..Len(digits) : DigitValue(digits[i]) > 9
               THEN SubSeq(digits, 1,
                      (CHOOSE i \in 1..Len(digits) :
                         /\ DigitValue(digits[i]) > 9
                         /\ \A j \in 1..(i - 1) : DigitValue(digits[j]) <= 9) - 1)
               ELSE digits
  IN IF dec = <<>> THEN [nan |-> TRUE, val |-> 0]
     ELSE [nan |-> FALSE,
           val |-> IF Len(dec) = 1 THEN DigitValue(dec[1])
                   ELSE DigitValue(dec[1]) * 10 + DigitValue(dec[2])]

\* The parse uuidStringToBytes applies to each pair of characters.
parseInt(s) == parseInt16(s)

\* Storing a number in a Uint8Array: NaN is stored as 0, another number modulo 256.
ToUint8(r) == IF r.nan THEN 0 ELSE r.val % 256

\* String.prototype.slice(from, to), for indexes that are not negative.
slice(s, from, to) ==
  SubSeq(s, from + 1, IF to < Len(s) THEN to ELSE Len(s))

\* Array.prototype.join(sep) over strings.
RECURSIVE join(_, _)
join(parts, sep) ==
  IF parts = <<>> THEN <<>>
  ELSE IF Len(parts) = 1 THEN parts[1]
  ELSE parts[1] \o sep \o join(Tail(parts), sep)

\* byte.toString(16)
toString16(byte) ==
  IF byte < 16 THEN <<HexDigits[byte + 1]>>
  ELSE <<HexDigits[(byte \div 16) + 1], HexDigits[(byte % 16) + 1]>>

\* padStart left out.
padStart_none(s, n, c) == s

\* String.prototype.padStart(n, c)
RECURSIVE padStart(_, _, _)
padStart(s, n, c) ==
  IF Len(s) >= n THEN s ELSE padStart(<<c>> \o s, n, c)

\* uuidStringToBytes(uuid): hex = uuid.replace(/-/g, "");
\*   bytes[i] = parseInt(hex.slice(i * 2, i * 2 + 2), 16) for i in 0..15
uuidStringToBytes(str) ==
  LET hex == SelectSeq(str, LAMBDA c : c # "-")
  IN [i \in 1..16 |-> ToUint8(parseInt(slice(hex, (i - 1) * 2, (i - 1) * 2 + 2)))]

\* uuidBytesToString(bytes): hex = bytes.map(toString(16).padStart(2, "0")).join("");
\*   [hex.slice(0, 8), hex.slice(8, 12), hex.slice(12, 16), hex.slice(16, 20),
\*    hex.slice(20)].join("-")
uuidBytesToString(bytes) ==
  LET hex == join([i \in 1..Len(bytes) |-> padStart(toString16(bytes[i]), 2, "0")],
                  <<>>)
  IN join(<<slice(hex, 0, 8), slice(hex, 8, 12), slice(hex, 12, 16),
            slice(hex, 16, 20), slice(hex, 20, Len(hex))>>, <<"-">>)

\* The positions of the hyphens in xxxxxxxx-xxxx-xxxx-xxxx-xxxxxxxxxxxx.
HyphenAt == {9, 14, 19, 24}

\* A string of the canonical form: 36 characters, hyphens at their places,
\* lowercase hexadecimal digits elsewhere.
Canonical(str) ==
  /\ Len(str) = 36
  /\ \A i \in 1..36 :
       IF i \in HyphenAt THEN str[i] = "-"
       ELSE \E k \in 1..16 : HexDigits[k] = str[i]

\* The sample inputs: those of the unit tests, and every input that differs
\* from one of them in at most MaxEdits positions.
RECURSIVE Edited(_, _, _, _)
Edited(S, n, positions, values) ==
  IF n = 0 THEN S
  ELSE LET T == Edited(S, n - 1, positions, values)
       IN T \cup {[t EXCEPT ![i] = v] : t \in T, i \in positions, v \in values}

SampleBytes == {0, 10, 16, 255}

SampleDigits == {"0", "9", "a", "f", "A"}

ByteInputs ==
  Edited({[i \in 1..16 |-> 0], [i \in 1..16 |-> 255],
          <<85, 14, 132, 0, 226, 155, 65, 212, 167, 22, 68, 102, 85, 68, 0, 0>>},
         MaxEdits, 1..16, SampleBytes)

TextInputs ==
  Edited({[i \in 1..36 |-> IF i \in HyphenAt THEN "-" ELSE "0"],
          [i \in 1..36 |-> IF i \in HyphenAt THEN "-" ELSE "f"],
          <<"1", "2", "3", "e", "4", "5", "6", "7", "-", "e", "8", "9", "b",
     "-", "1", "2", "d", "3", "-", "a", "4", "5", "6", "-", "4", "2", "6",
     "6", "1", "4", "1", "7", "4", "0", "0", "0">>},
         MaxEdits, (1..36) \ HyphenAt, SampleDigits)

InitUuid ==
  /\ hState = [h \in Handles |-> "unalloc"]
  /\ hKind = [h \in Handles |-> "none"]
  /\ ortLoaded = FALSE
  /\ present = OptionalEntries
  /\ client = NoClient
  /\ modelFile = NoModelFile
  /\ op = OpIdle
  /\ trace = <<>>
  /\ started = 0
  /\ library = 0
  /\ cachedFunctions = 0
  /\ loads = 0
  /\ call = NoCall
  /\ \/ \E b \in ByteInputs : uuid = [NoUuid EXCEPT !.from = "bytes", !.bytes = b]
     \/ \E t \in TextInputs : uuid = [NoUuid EXCEPT !.from = "text", !.text = t]

\* The caller converts bytes to a string: the input bytes, or the bytes made
\* of the input string.
BytesToString ==
  /\ \/ uuid.from = "bytes" /\ uuid.steps = 0
     \/ uuid.from = "text" /\ uuid.steps = 1
  /\ uuid' = IF uuid.from = "bytes"
               THEN [uuid EXCEPT !.steps = 1, !.text = uuidBytesToString(uuid.bytes)]
               ELSE [uuid EXCEPT !.steps = 2,
                                 !.backText = uuidBytesToString(uuid.bytes)]
  /\ UNCHANGED <<handleVars, cacheVars>>

\* The caller converts a string to bytes: the input string, or the string made
\* of the input bytes.
StringToBytes ==
  /\ \/ uuid.from = "text" /\ uuid.steps = 0
     \/ uuid.from = "bytes" /\ uuid.steps = 1
  /\ uuid' = IF uuid.from = "text"
               THEN [uuid EXCEPT !.steps = 1, !.bytes = uuidStringToBytes(uuid.text)]
               ELSE [uuid EXCEPT !.steps = 2,
                                 !.backBytes = uuidStringToBytes(uuid.text)]
  /\ UNCHANGED <<handleVars, cacheVars>>

NextUuid == BytesToString \/ StringToBytes

SpecUuid == InitUuid /\ [][NextUuid]_vars

\* ------------------------------------------------------------- properties

\* Where e first occurs in the sequence s, or 0.
Pos(s, e) ==
  IF \E i \in 1..Len(s) : s[i] = e
    THEN CHOOSE i \in 1..Len(s) : s[i] = e /\ \A j \in 1..(i - 1) : s[j] # e
    ELSE 0

\* How often e occurs in the sequence s.
Count(s, e) == Cardinality({i \in 1..Len(s) : s[i] = e})

\* A client operation has started.
ClientRan(names) == op.via = "client" /\ op.name \in names /\ op.pc # "idle"

DisposedOps ==
  {"peekModelFilesMeta", "loadVoiceModelFromPath", "tts", "ttsFromKana",
   "createAudioQuery", "createAudioQueryFromKana", "createAccentPhrases",
   "createAccentPhrasesFromKana", "createAudioQueryFromAccentPhrases",
   "synthesize", "createSingFrameAudioQuery", "frameSynthesize", "sing",
   "getLoadedSpeakers", "getVersion", "isGpuMode"}

\* C1: a client operation called after close() fails with the error
\* "VoicevoxClient has been disposed" and invokes no native entry point.
C1_DisposedClientRejects ==
  (ClientRan(DisposedOps) /\ op.startedDisposed)
    => /\ op.pc = "thrown"
       /\ op.err = Error("VoicevoxClient has been disposed")
       /\ trace = <<>>

C1_Witness ==
  /\ ClientRan({"tts"})
  /\ op.startedDisposed
  /\ op.pc = "thrown"
  /\ hState[client.synthesizer] = "deleted"

\* C2: no call of close() or [Symbol.dispose]() on the client or on a model
\* file raises; the first call invokes each native delete entry point of the
\* object once, and every later call invokes nothing.
C2_CloseIdempotent ==
  (op.name \in {"close", "dispose"} /\ op.via \in {"client", "model"})
    => /\ op.pc = "returned"
       /\ op.err = NoErr
       /\ trace = IF op.startedDisposed THEN <<>>
                  ELSE IF op.via = "client"
                    THEN <<"voicevox_synthesizer_delete", "voicevox_open_jtalk_rc_delete">>
                    ELSE <<"voicevox_voice_model_file_delete">>

C2_Witness ==
  /\ op.via = "model"
  /\ op.name = "dispose"
  /\ op.startedDisposed
  /\ op.pc = "returned"
  /\ client.disposed
  /\ hState[client.synthesizer] = "deleted"
  /\ hState[modelFile.handle] = "deleted"

\* C3: no native entry point is invoked with a handle that was passed to its
\* destroy/close operation before.
C3_NoUseAfterDestroy == ~op.stale

\* C4: a buffer a successful native call yielded is freed exactly once before
\* the wrapper returns or raises: none is left unfreed, none is freed twice.
C4_BufferFreedOnce ==
  op.pc \in {"returned", "thrown"} => (~op.leaked /\ op.buf # "twice")

SynthesizerErrors ==
  {VoicevoxError(c, voicevox_error_result_to_message(c)) : c \in ResultCodes \ {Ok}}
    \cup {Error(createSynthesizer.nullMsg), SubmitError}

\* C5: when createVoicevoxClient fails at createSynthesizer, the text analyzer
\* it created is destroyed exactly once, after the synthesizer's entry point
\* was invoked, and the rejection is the error createSynthesizer raised.
C5_AnalyzerDestroyedOnFailure ==
  (op.name = "createVoicevoxClient" /\ op.stage = "synth" /\ op.pc = "thrown")
    => /\ Count(trace, "voicevox_open_jtalk_rc_delete") = 1
       /\ Pos(trace, "voicevox_synthesizer_new")
            < Pos(trace, "voicevox_open_jtalk_rc_delete")
       /\ hState[op.h] = "deleted"
       /\ ~op.stale
       /\ client = NoClient
       /\ op.err \in SynthesizerErrors
       /\ (op.failed # Ok
            => op.err = VoicevoxError(op.failed, voicevox_error_result_to_message(op.failed)))

C5_Witness ==
  /\ op.name = "createVoicevoxClient"
  /\ op.stage = "synth"
  /\ op.pc = "thrown"
  /\ op.failed = StyleNotFoundError
  /\ hState[op.h] = "deleted"

\* C6: when a native call answers a nonzero result code c, the operation raises
\* a VoicevoxError with code c and the non-empty message that
\* voicevox_error_result_to_message(c) gives.
C6_ErrorCarriesCode ==
  op.failed # Ok
    => /\ op.pc = "thrown"
       /\ op.err = VoicevoxError(op.failed, voicevox_error_result_to_message(op.failed))
       /\ op.err.msg # ""
       /\ Pos(trace, "voicevox_error_result_to_message") > 0

C6_Witness ==
  /\ op.via = "api"
  /\ op.name = "createAudioQuery"
  /\ op.failed = StyleNotFoundError
  /\ op.pc = "thrown"

\* C7: when a native call reports success with a null pointer, the wrapper
\* raises an Error and neither decodes, frees nor returns the null value.
C7_NullPointerRejected ==
  op.nullSeen => (op.pc = "thrown" /\ op.err.cls = "Error" /\ ~op.nullUse)

DestroyOps == {"deleteSynthesizer", "deleteOpenJtalk", "closeVoiceModelFile", "deleteUserDict"}

\* C8: a low-level destroy/close called on a handle that was destroyed before
\* returns without invoking the native delete entry point.
C8_SecondDestroyIsNoOp ==
  (op.via = "api" /\ op.name \in DestroyOps /\ op.argDeleted)
    => (op.pc = "returned" /\ trace = <<>>)

\* C9: a wrapper that received a buffer reads the length (WAV) and decodes it
\* before it frees it, and has freed it when it returns.
C9_DecodeThenFree ==
  (op.stage = "" /\ op.buf # "none" /\ op.pc \in {"returned", "thrown"})
    => /\ op.pc = "returned" => op.buf = "freed"
       /\ op.buf = "freed"
            => /\ Pos(trace, "decode") > 0
               /\ Pos(trace, "decode") < Pos(trace, WrapperNamed(op.w).free)
               /\ WrapperNamed(op.w).ret = "wav"
                    => /\ Pos(trace, "readLength") > 0
                       /\ Pos(trace, "readLength") < Pos(trace, "decode")

C9_Witness ==
  /\ op.via = "api"
  /\ op.name = "synthesis"
  /\ op.pc = "returned"
  /\ op.buf = "freed"
  /\ trace = <<"voicevox_make_default_synthesis_options", "voicevox_synthesizer_synthesis",
               "readLength", "decode", "voicevox_wav_free">>

OptionalNames == {w.name : w \in {x \in Wrappers : x.optional}}

\* C10: an operation whose optional entry point the call table lacks fails
\* with the wrapper's unsupported-operation error and invokes nothing.
C10_AbsentEntryUnsupported ==
  (op.w \in OptionalNames /\ WrapperNamed(op.w).entry \notin present)
    => /\ op.pc = "thrown"
       /\ op.err = Error(WrapperNamed(op.w).unsupported)
       /\ op.err.msg # ""
       /\ trace = <<>>

C10_Witness ==
  /\ op.via = "api"
  /\ op.name = "validateNote"
  /\ present = {}
  /\ op.absent
  /\ op.pc = "thrown"

\* C11: the promise of the adapter is settled exactly once per submitted
\* native call: pending until the callback runs, then resolved or rejected by
\* one call of resolve or reject.
C11_PromiseSettledOnce ==
  /\ op.promise = "pending" => (op.settles = 0 /\ op.pc = "awaiting")
  /\ op.promise \in {"resolved", "rejected"} => op.settles = 1
  /\ (op.pc = "awaiting" /\ op.stage # "readdir") => op.promise = "pending"
  /\ op.promise = "none" => op.settles = 0

C11_Witness ==
  /\ op.via = "api"
  /\ op.name = "tts"
  /\ op.promise = "rejected"
  /\ op.settles = 1
  /\ op.pc = "thrown"

\* C12: a nonzero result code of a submitted call resolves the promise with
\* that code, and the wrapper then raises the VoicevoxError of it; the promise
\* is rejected exactly when the submission mechanism reported an error.
C12_CodeResolvesPromise ==
  /\ (op.promise # "none" /\ op.failed # Ok)
       => /\ op.promise = "resolved"
          /\ op.res = op.failed
          /\ op.err = VoicevoxError(op.failed, voicevox_error_result_to_message(op.failed))
  /\ op.promise = "rejected" => (op.submitFailed /\ op.err = SubmitError)
  /\ op.submitFailed => op.promise = "rejected"

C12_Witness ==
  /\ op.via = "api"
  /\ op.name = "openVoiceModelFile"
  /\ op.failed = NotLoadedOpenjtalkDictError
  /\ op.promise = "resolved"
  /\ op.res = NotLoadedOpenjtalkDictError
  /\ op.pc = "thrown"

\* C13: a VoicevoxError is raised exactly when a native call answered a nonzero
\* result code, and a managed-layer failure (a null pointer despite success, a
\* disposed client, a missing optional entry point) is raised as another error.
C13_VoicevoxErrorIffCode ==
  op.pc \in {"returned", "thrown"}
    => /\ (op.err.cls = "VoicevoxError") <=> (op.failed # Ok)
       /\ (op.nullSeen \/ op.absent \/ (ClientRan(DisposedOps) /\ op.startedDisposed))
            => (op.pc = "thrown" /\ op.err.cls \notin {"VoicevoxError", "none"})

\* The entries of trace at and after position i, up to the next one in stop.
NoneBetween(i, j, stop) == \A k \in (i + 1)..(j - 1) : trace[k] \notin stop

FileEntries ==
  {"voicevox_voice_model_file_open", "voicevox_synthesizer_load_voice_model",
   "voicevox_voice_model_file_delete"}

\* C14: loadVoiceModelFromPath closes each file it opened exactly once, after
\* the load of that file has completed (with or without error) and before it
\* settles; while the load is running the file is open.
C14_EachFileClosedOnce ==
  ClientRan({"loadVoiceModelFromPath"})
    => /\ op.pc \in {"returned", "thrown"}
            => /\ Count(trace, "voicevox_voice_model_file_delete") = op.made
               /\ op.made > 0 => hState[op.h] = "deleted"
       /\ (op.pc = "awaiting" /\ op.stage = "load")
            => /\ hState[op.h] = "live"
               /\ Count(trace, "voicevox_voice_model_file_delete") = op.made - 1
       /\ (op.pc = "awaiting" /\ op.stage = "open")
            => Count(trace, "voicevox_voice_model_file_delete") = op.made
       /\ \A i \in 1..Len(trace) :
            trace[i] = "voicevox_voice_model_file_delete"
              => \E j \in 1..(i - 1) :
                   /\ trace[j] = "voicevox_synthesizer_load_voice_model"
                   /\ NoneBetween(j, i, FileEntries)

C14_Witness ==
  /\ ClientRan({"loadVoiceModelFromPath"})
  /\ op.pc = "thrown"
  /\ op.failed = StyleNotFoundError
  /\ op.made = 2
  /\ Count(trace, "voicevox_voice_model_file_delete") = 2
  /\ hState[op.h] = "deleted"

\* C15: the ONNX Runtime, once loaded, stays loaded for the rest of the
\* process: no step (close() and the cleanup of a failed createVoicevoxClient
\* included) unloads it, and no entry point that destroys a handle is ever
\* invoked on it: every destroying call in the trace is one of the wrappers
\* that delete an analyzer, a synthesizer, a model file or a user dictionary.
RuntimeDestroyers == {w \in Wrappers : w.ret = "delete" /\ w.argA = "ort"}

C16_UseAfterCloseThrowsInCall ==
  /\ (ClientRan(DisposedOps) /\ op.startedDisposed)
       => (op.pc = "thrown" /\ trace = <<>> /\ ~op.asyncFn)
  /\ (op.via = "api" /\ op.argDeleted /\ op.pc # "idle")
       => (op.pc = "thrown" /\ trace = <<>> /\ ~op.asyncFn)

\* C17: no native entry point that blocks (library load, dictionary load,
\* model open, synthesis) is ever called on the plain call path: each is
\* submitted through promisifyKoffiAsync, so the caller's thread is never
\* stalled inside one.
C17_BlockingCallsSubmitted ==
  /\ ~op.stalled
  /\ \A i \in 1..Len(trace) :
       trace[i] \in BlockingEntries
         => \E w \in Wrappers : w.entry = trace[i] /\ w.async

\* C18: the module-level library and its call table are initialised at most
\* once in a process: koffi.load runs at most one time, the instance it loaded
\* is never discarded afterwards, and every call made through the cache uses
\* that one instance, for its call table and for the library alike.
C18_LibraryInitialisedOnce ==
  /\ loads <= 1
  /\ loads = 1 => library = 1
  /\ cachedFunctions # 0 => cachedFunctions = library
  /\ call.fn \in {"synthesis", "tts"} => call.functions = call.lib

\* The caller supplied the field in the options of the last call.
Supplied(field) == field \in DOMAIN call.options

\* C20: each field of the options struct handed to the native call is the
\* caller's value when the caller supplied that field and the native default
\* otherwise, for the initialize, synthesis / tts and load-ONNX-Runtime
\* options; a field the caller supplied never changes another field.
C20_OptionsMergedFieldByField ==
  /\ call.fn = "createSynthesizer"
       => /\ call.passed.acceleration_mode
               = (IF Supplied("accelerationMode")
                    THEN call.options["accelerationMode"]
                    ELSE call.defaults.acceleration_mode)
          /\ call.passed.cpu_num_threads
               = (IF Supplied("cpuNumThreads")
                    THEN call.options["cpuNumThreads"]
                    ELSE call.defaults.cpu_num_threads)
  /\ call.fn \in {"synthesis", "tts"}
       => call.passed.enable_interrogative_upspeak
            = (IF Supplied("enableInterrogativeUpspeak")
                 THEN call.options["enableInterrogativeUpspeak"]
                 ELSE call.defaults.enable_interrogative_upspeak)
  /\ call.fn = "loadOnnxruntime"
       => call.passed.filename
            = (IF Supplied("filename") THEN call.options["filename"]
               ELSE call.defaults.filename)

\* createSynthesizer was called with cpuNumThreads alone, and the struct keeps
\* the native default of the other field next to the caller's value.
C20_Witness ==
  /\ call.fn = "createSynthesizer"
  /\ DOMAIN call.options = {"cpuNumThreads"}
  /\ call.options["cpuNumThreads"] = 2
  /\ call.defaults = [acceleration_mode |-> 1, cpu_num_threads |-> 0]
  /\ call.passed = [acceleration_mode |-> 1, cpu_num_threads |-> 2]

\* C19: when an operation fails because its optional native entry point is
\* absent from the call table, the error raised is the wrapper's message for the
\* missing entry, and that message names the minimum native library version
\* that introduces the entry.
C19_UnsupportedNamesVersion ==
  (op.absent /\ op.pc = "thrown")
    => /\ op.err = Error(WrapperNamed(op.w).unsupported)
       /\ WrapperNamed(op.w).minVersion # ""

\* C21: for every array b of 16 bytes, converting b to its UUID string and the
\* string back to bytes gives b again, byte for byte.
C21_BytesRoundTrip ==
  (uuid.from = "bytes" /\ uuid.steps = 2)
    => /\ Len(uuid.backBytes) = 16
       /\ \A i \in 1..16 : uuid.backBytes[i] = uuid.bytes[i]

\* An array holding a byte below 16, whose digit needs the padding, went
\* through both conversions.
C21_Witness ==
  /\ uuid.from = "bytes" /\ uuid.steps = 2
  /\ \E i \in 1..16 : uuid.bytes[i] = 10
  /\ \E i \in 1..16 : uuid.bytes[i] = 255
  /\ Canonical(uuid.text)
  /\ uuid.backBytes = uuid.bytes

\* C22: for every string s of the canonical form
\* xxxxxxxx-xxxx-xxxx-xxxx-xxxxxxxxxxxx with lowercase hexadecimal digits,
\* converting s to bytes and the bytes back to a string gives s again.
C22_StringRoundTrip ==
  (uuid.from = "text" /\ uuid.steps = 2 /\ Canonical(uuid.text))
    => uuid.backText = uuid.text

\* A canonical string holding letters and digits went through both conversions.
C22_Witness ==
  /\ uuid.from = "text" /\ uuid.steps = 2
  /\ Canonical(uuid.text)
  /\ \E i \in 1..36 : uuid.text[i] = "e"
  /\ \E i \in 1..36 : uuid.text[i] = "9"
  /\ uuid.bytes[1] = 18
  /\ uuid.backText = uuid.text

\* C23: while a native call submitted by an operation of the client is still
\* running on a worker, close() does not destroy the handles the call uses: in
\* no interleaving is the synthesizer deleted between the submission of a call
\* that uses it and the completion of that call.
C23_NoDeleteDuringNativeCall ==
  op.via = "client"
    => /\ ~op.raced
       /\ (op.pc = "awaiting" /\ op.promise = "pending" /\ ~op.stale)
            => ~(Deleted(Frame, op.a) \/ Deleted(Frame, op.b))

\* C24: in every interleaving of close() with an operation of the client made
\* of several steps (sing, loadVoiceModelFromPath with several paths), no native
\* call is submitted with the synthesizer after close() has destroyed it, the
\* steps after the operation's first suspension included.
SynthesizerEntries ==
  {w.entry : w \in {x \in Wrappers : x.argA = "synth" /\ x.ret # "delete"}}

C24_NoSubmitAfterClose ==
  (op.via = "client" /\ op.name \in {"sing", "loadVoiceModelFromPath"})
    => \A i \in 1..Len(trace) :
         trace[i] = "voicevox_synthesizer_delete"
           => \A j \in (i + 1)..Len(trace) : trace[j] \notin SynthesizerEntries

\* C25: after close() the client hands the caller none of its destroyed
\* handles: what the accessors synthesizerHandle and openJtalkHandle return
\* is never the destroyed synthesizer or the destroyed analyzer.
C25_AccessorsHideDeletedHandles ==
  (ClientRan({"synthesizerHandle", "openJtalkHandle"}) /\ op.pc = "returned"
     /\ op.startedDisposed /\ op.val \in Handles)
    => hState[op.val] # "deleted"

\* C26: loadModel and loadModels never hand the native load call the handle of
\* a VoicevoxModelFile whose close() was called before: with such a file the
\* operation makes no call of voicevox_synthesizer_load_voice_model.
C26_ClosedModelFileNotLoaded ==
  (ClientRan({"loadModel", "loadModels"}) /\ modelFile.modelDisposed)
    => Count(trace, "voicevox_synthesizer_load_voice_model") = 0

\* C27: peekModelFilesMeta closes every model file it opened exactly once on
\* every way out (normal completion, the metadata retrieval raising, the JSON
\* parse raising): whenever it is suspended or has settled, every file it
\* opened is closed, each close follows the open of its file with no other
\* open or close between, so at most one file is open at a time.
C27_PeekClosesEveryFile ==
  ClientRan({"peekModelFilesMeta"})
    => /\ Count(trace, "voicevox_voice_model_file_delete") = op.made
       /\ op.made <= Count(trace, "voicevox_voice_model_file_open")
       /\ \A i \in 1..Len(trace) :
            trace[i] = "voicevox_voice_model_file_delete"
              => \E j \in 1..(i - 1) :
                   /\ trace[j] = "voicevox_voice_model_file_open"
                   /\ NoneBetween(j, i, FileEntries)

\* peekModelFilesMeta read the first file, failed to parse the metadata of the
\* second, and closed both.
C27_Witness ==
  /\ ClientRan({"peekModelFilesMeta"})
  /\ op.pc = "thrown"
  /\ op.err = SyntaxError
  /\ op.made = 2
  /\ Count(trace, "voicevox_voice_model_file_delete") = 2

\* C28: when openModelFile fails after the native open succeeded (the metadata
\* retrieval or the JSON parse raises), it closes the model file it opened
\* before its promise rejects: a rejected openModelFile leaves no file open.
C28_FailedOpenClosesFile ==
  (ClientRan({"openModelFile"}) /\ op.pc = "thrown")
    => Count(trace, "voicevox_voice_model_file_delete") = op.made

\* C29: when loadVoiceModelFromPath is given several paths and the open or the
\* load of the k-th fails, the promise rejects with that error, no later path
\* is opened (k files were opened, the paths from the k-th on are left), and
\* nothing undoes the loads of the paths before: the k-1 earlier loads ran and
\* no model is unloaded.
C29_StopsAtFirstFailure ==
  (ClientRan({"loadVoiceModelFromPath"}) /\ ~op.startedDisposed)
    => /\ Count(trace, "voicevox_synthesizer_unload_voice_model") = 0
       /\ op.pc # "thrown" => (op.failed = Ok /\ ~op.nullSeen /\ ~op.submitFailed)
       /\ op.pc = "returned"
            => /\ op.n = 0
               /\ Count(trace, "voicevox_voice_model_file_open") = op.paths
               /\ Count(trace, "voicevox_synthesizer_load_voice_model") = op.paths
       /\ op.pc = "thrown"
            => /\ op.n >= 1
               /\ Count(trace, "voicevox_voice_model_file_open")
                    = op.paths - op.n + 1
               /\ Count(trace, "voicevox_synthesizer_load_voice_model")
                    >= op.paths - op.n
               /\ op.failed # Ok
                    => op.err = VoicevoxError(op.failed,
                                   voicevox_error_result_to_message(op.failed))

\* Of two paths the first was loaded and the load of the second failed: both
\* files were opened, both loads were made, and nothing was unloaded.
C29_Witness ==
  /\ ClientRan({"loadVoiceModelFromPath"})
  /\ op.pc = "thrown"
  /\ op.paths = 2 /\ op.n = 1
  /\ op.stage = "load"
  /\ op.failed = StyleNotFoundError
  /\ op.err.cls = "VoicevoxError"
  /\ Count(trace, "voicevox_synthesizer_load_voice_model") = 2
  /\ Count(trace, "voicevox_synthesizer_unload_voice_model") = 0

\* C30: whenever a client is closed, its synthesizer is destroyed before the
\* analyzer it was built from: in what close() invokes, alone or while another
\* operation of the client is suspended, voicevox_synthesizer_delete comes
\* before voicevox_open_jtalk_rc_delete, and once close() has run both handles
\* of the client are destroyed.
C30_SynthesizerDeletedFirst ==
  (op.via = "client" /\ op.name # "createVoicevoxClient")
    => /\ \A i \in 1..Len(trace) :
            trace[i] = "voicevox_open_jtalk_rc_delete"
              => \E j \in 1..(i - 1) : trace[j] = "voicevox_synthesizer_delete"
       /\ (op.name \in {"close", "dispose"} /\ ~op.startedDisposed)
            => trace = <<"voicevox_synthesizer_delete",
                         "voicevox_open_jtalk_rc_delete">>

\* close() ran on a live client and destroyed the synthesizer, then the
\* analyzer.
C30_Witness ==
  /\ op.via = "client" /\ op.name = "dispose" /\ op.pc = "returned"
  /\ ~op.startedDisposed
  /\ trace = <<"voicevox_synthesizer_delete", "voicevox_open_jtalk_rc_delete">>
  /\ hState[client.synthesizer] = "deleted"
  /\ hState[client.openJtalk] = "deleted"

====
